---- MODULE Spec2Model ----
(***************************************************************************)
(* A model of AI_Powered_Drone.py: the waypoint-following DroneSimulator,  *)
(* the AnomalyDetector's four stochastic detectors, and the                *)
(* InspectionDashboard that ticks both and builds the inspection report.   *)
(*                                                                         *)
(* Numbers.  The program computes positions, velocities, time increments   *)
(* and the battery level with Python and numpy floats.  The model computes *)
(* them as the program does, in IEEE 754 binary64 with rounding to the     *)
(* nearest float, ties to even, one rounding per operation, so that        *)
(* "distance < 1.0" and "distance > 0" are decided as the program decides  *)
(* them.  np.linalg.norm is the square root of the dot product of the      *)
(* vector with itself; whether the dot product rounds each product before  *)
(* adding it or fuses the multiplication into the addition depends on the  *)
(* numpy build, and is a choice made once per run (fused).  A detector's   *)
(* confidence is an integer in hundredths.                                 *)
(*                                                                         *)
(* Randomness and time.  random.* and time.time() are inputs: every tick   *)
(* draws one element of RandomDraws (the trigger variate of each detector  *)
(* and the level of its other draws) and one clock reading.                *)
(***************************************************************************)
EXTENDS Integers, Sequences, FiniteSets, TLC

VARIABLES
    drone,              \* InspectionDashboard.drone: the DroneSimulator's fields
    anomalies,          \* InspectionDashboard.anomalies: the cumulative log
    inspection_active,  \* InspectionDashboard.inspection_active
    ticks,              \* update_dashboard / update_position calls made since the plan was loaded
    now,                \* the clock, int(time.time() * 1000), as last read
    ret,                \* what the last call returned: <<report>>, or << >> for None
    missions,           \* flight plans loaded on this controller so far
    dt,                 \* the tick increment the driver passes to update_position
    fused               \* whether this build's dot product fuses multiply and add

vars == <<drone, anomalies, inspection_active, ticks, now, ret, missions, dt, fused>>

-----------------------------------------------------------------------------
(* Bounds of the model. *)

MaxLog == 2          \* detectors may fire while the log is shorter than this
MaxClock == 1        \* the clock advances at most this many milliseconds
MaxMissions == 2     \* flight plans loaded on one controller
MaxFrames == 4       \* update_dashboard calls the timer makes per mission
MaxTicks == 55
MaxReload == 1       \* a driver replaces the plan at most this many ticks after loading it
MaxPeriod == 2       \* ticks looked ahead for a recurring flying state

-----------------------------------------------------------------------------
(* Naturals of any size: little-endian sequences of limbs below Base, without *)
(* leading zero limbs (<< >> is zero).                                        *)

LimbBits == 14

Base == 2 ^ LimbBits

Limb(a, i) == IF i <= Len(a) THEN a[i] ELSE 0

RECURSIVE Trim(_)
Trim(a) ==
    IF a = << >> THEN a
    ELSE IF a[Len(a)] = 0 THEN Trim(SubSeq(a, 1, Len(a) - 1)) ELSE a

RECURSIVE BigOf(_)
BigOf(n) == IF n = 0 THEN << >> ELSE <<n % Base>> \o BigOf(n \div Base)

RECURSIVE AddFrom(_, _, _, _)
AddFrom(a, b, i, carry) ==
    IF i > Len(a) /\ i > Len(b) THEN BigOf(carry)
    ELSE LET s == Limb(a, i) + Limb(b, i) + carry
         IN  <<s % Base>> \o AddFrom(a, b, i + 1, s \div Base)

BigAdd(a, b) == AddFrom(a, b, 1, 0)

\* a - b for a >= b
RECURSIVE SubFrom(_, _, _, _)
SubFrom(a, b, i, borrow) ==
    IF i > Len(a) THEN << >>
    ELSE LET s == a[i] - Limb(b, i) - borrow
         IN  IF s < 0 THEN <<s + Base>> \o SubFrom(a, b, i + 1, 1)
             ELSE <<s>> \o SubFrom(a, b, i + 1, 0)

BigSub(a, b) == Trim(SubFrom(a, b, 1, 0))

\* -1, 0, 1 as a < b, a = b, a > b
RECURSIVE CmpFrom(_, _, _)
CmpFrom(a, b, i) ==
    IF i = 0 THEN 0
    ELSE IF a[i] < b[i] THEN -1
    ELSE IF a[i] > b[i] THEN 1
    ELSE CmpFrom(a, b, i - 1)

BigCmp(a, b) ==
    IF Len(a) < Len(b) THEN -1
    ELSE IF Len(a) > Len(b) THEN 1
    ELSE CmpFrom(a, b, Len(a))

\* a * k for 0 <= k <= Base
RECURSIVE MulSmallFrom(_, _, _, _)
MulSmallFrom(a, k, i, carry) ==
    IF i > Len(a) THEN BigOf(carry)
    ELSE LET p == a[i] * k + carry
         IN  <<p % Base>> \o MulSmallFrom(a, k, i + 1, p \div Base)

BigMulSmall(a, k) == IF k = 0 THEN << >> ELSE MulSmallFrom(a, k, 1, 0)

\* the sum of a[i] * b[j] over i + j = k + 1, from i on
RECURSIVE Column(_, _, _, _)
Column(a, b, k, i) ==
    IF i > Len(a) \/ i > k THEN 0
    ELSE a[i] * Limb(b, k + 1 - i) + Column(a, b, k, i + 1)

RECURSIVE MulFrom(_, _, _, _)
MulFrom(a, b, k, carry) ==
    IF k > Len(a) + Len(b) THEN << >>
    ELSE LET s == Column(a, b, k, 1) + carry
         IN  <<s % Base>> \o MulFrom(a, b, k + 1, s \div Base)

BigMul(a, b) == IF a = << >> \/ b = << >> THEN << >> ELSE Trim(MulFrom(a, b, 1, 0))

RECURSIVE Zeros(_)
Zeros(n) == IF n = 0 THEN << >> ELSE <<0>> \o Zeros(n - 1)

\* a * 2^n
BigShl(a, n) ==
    IF a = << >> THEN a
    ELSE Zeros(n \div LimbBits) \o BigMulSmall(a, 2 ^ (n % LimbBits))

\* a \div k for 0 < k <= Base, from limb i down, rem the remainder carried in
RECURSIVE DivSmallFrom(_, _, _, _)
DivSmallFrom(a, k, i, rem) ==
    IF i = 0 THEN << >>
    ELSE LET cur == rem * Base + a[i]
         IN  DivSmallFrom(a, k, i - 1, cur % k) \o <<cur \div k>>

\* a \div 2^n
BigShr(a, n) ==
    LET q == n \div LimbBits
    IN  IF q >= Len(a) THEN << >>
        ELSE LET high == SubSeq(a, q + 1, Len(a))
             IN  Trim(DivSmallFrom(high, 2 ^ (n % LimbBits), Len(high), 0))

\* bit n of a (bit 0 is the lowest)
BigBit(a, n) == (Limb(a, n \div LimbBits + 1) \div (2 ^ (n % LimbBits))) % 2

\* a % 2^n # 0
BigLowBits(a, n) ==
    \/ \E i \in 1..(n \div LimbBits) : Limb(a, i) # 0
    \/ Limb(a, n \div LimbBits + 1) % (2 ^ (n % LimbBits)) # 0

RECURSIVE BitLength(_)
BitLength(n) == IF n = 0 THEN 0 ELSE 1 + BitLength(n \div 2)

BigBitLength(a) ==
    IF a = << >> THEN 0 ELSE (Len(a) - 1) * LimbBits + BitLength(a[Len(a)])

\* the quotient digit of rem by d (rem < d * Base, top limb of d >= Base / 2)
RECURSIVE DigitDown(_, _, _, _)
DigitDown(rem, d, digit, product) ==
    IF BigCmp(product, rem) > 0 THEN DigitDown(rem, d, digit - 1, BigSub(product, d))
    ELSE [digit |-> digit, rem |-> BigSub(rem, product)]

Digit(rem, d) ==
    LET n == Len(d)
        top == Limb(rem, n + 1) * Base + Limb(rem, n)
        guess == top \div d[n]
        digit == IF guess >= Base THEN Base - 1 ELSE guess
    IN  DigitDown(rem, d, digit, BigMulSmall(d, digit))

\* long division of limbs i..1 of a by d: rem the remainder carried in, quot the
\* quotient's limbs so far, without leading zeros
RECURSIVE DivFrom(_, _, _, _, _)
DivFrom(a, d, i, rem, quot) ==
    IF i = 0 THEN [quot |-> quot, rem |-> rem]
    ELSE LET step == Digit(Trim(<<a[i]>> \o rem), d)
         IN  IF step.digit = 0 /\ quot = << >>
             THEN DivFrom(a, d, i - 1, step.rem, quot)
             ELSE DivFrom(a, d, i - 1, step.rem, <<step.digit>> \o quot)

\* a \div d and whether a % d # 0 (d # 0)
BigDiv(a, d) ==
    LET shift == LimbBits - BitLength(d[Len(d)])
        aa == BigShl(a, shift)
        dd == BigShl(d, shift)
        res == DivFrom(aa, dd, Len(aa), << >>, << >>)
    IN  [quot |-> res.quot, inexact |-> res.rem # << >>]

\* floor of the square root of an int below Base * Base
RECURSIVE SqrtSearch(_, _, _)
SqrtSearch(n, lo, hi) ==
    IF lo >= hi THEN lo
    ELSE LET mid == (lo + hi + 1) \div 2
         IN  IF mid * mid <= n THEN SqrtSearch(n, mid, hi)
             ELSE SqrtSearch(n, lo, mid - 1)

\* Newton's iteration downwards from x >= floor(sqrt(a))
RECURSIVE SqrtDown(_, _)
SqrtDown(a, x) ==
    LET y == BigShr(BigAdd(x, BigDiv(a, x).quot), 1)
    IN  IF BigCmp(y, x) >= 0 THEN x ELSE SqrtDown(a, y)

\* floor of the square root of a, for a of an even number of limbs
BigSqrt(a) ==
    LET k == Len(a) \div 2
        top == a[2 * k] * Base + a[2 * k - 1]
        start == Zeros(k - 1) \o BigOf(SqrtSearch(top, 0, Base) + 1)
    IN  SqrtDown(a, start)

(* IEEE 754 binary64, round to nearest, ties to even: a float is zero or     *)
(* (-1)^neg * man * 2^exp with 2^52 <= man < 2^53.  No subnormals, infinities *)
(* or NaNs; zero has no sign.                                                 *)

Precision == 53

Zero == [neg |-> FALSE, exp |-> 0, man |-> << >>]

\* the float nearest to (-1)^neg * (man + rest) * 2^exp, where 0 < rest < 1 if inexact
\* and rest = 0 if not (man of more than Precision + 1 bits if inexact)
Round(neg, exp, man, inexact) ==
    LET bits == BigBitLength(man)
        drop == bits - Precision
    IN  IF man = << >> THEN Zero
        ELSE IF drop <= 0 THEN [neg |-> neg, exp |-> exp + drop, man |-> BigShl(man, -drop)]
        ELSE LET kept == BigShr(man, drop)
                 half == BigBit(man, drop - 1) = 1
                 below == BigLowBits(man, drop - 1) \/ inexact
                 up == half /\ (below \/ kept[1] % 2 = 1)
                 rounded == IF up THEN BigAdd(kept, <<1>>) ELSE kept
             IN  IF BigBitLength(rounded) > Precision
                 THEN [neg |-> neg, exp |-> exp + drop + 1, man |-> BigShr(rounded, 1)]
                 ELSE [neg |-> neg, exp |-> exp + drop, man |-> rounded]

\* float(n) for an int n
FloatOf(n) == IF n < 0 THEN Round(TRUE, 0, BigOf(-n), FALSE) ELSE Round(FALSE, 0, BigOf(n), FALSE)

FNeg(a) == IF a.man = << >> THEN a ELSE [a EXCEPT !.neg = ~a.neg]

\* |a| compared with |b|: -1, 0, 1
MagCmp(a, b) ==
    IF a.man = << >> THEN (IF b.man = << >> THEN 0 ELSE -1)
    ELSE IF b.man = << >> THEN 1
    ELSE IF a.exp < b.exp THEN -1
    ELSE IF a.exp > b.exp THEN 1
    ELSE BigCmp(a.man, b.man)

\* a < b
FLess(a, b) ==
    IF a.neg /\ ~b.neg THEN TRUE
    ELSE IF ~a.neg /\ b.neg THEN FALSE
    ELSE IF a.neg THEN MagCmp(a, b) > 0
    ELSE MagCmp(a, b) < 0

\* the exact sum of two signed magnitudes man * 2^exp, rounded once
ExactAdd(neg1, exp1, man1, neg2, exp2, man2) ==
    LET exp == IF exp1 < exp2 THEN exp1 ELSE exp2
        x == BigShl(man1, exp1 - exp)
        y == BigShl(man2, exp2 - exp)
        c == BigCmp(x, y)
    IN  IF neg1 = neg2 THEN Round(neg1, exp, BigAdd(x, y), FALSE)
        ELSE IF c = 0 THEN Zero
        ELSE IF c > 0 THEN Round(neg1, exp, BigSub(x, y), FALSE)
        ELSE Round(neg2, exp, BigSub(y, x), FALSE)

FAdd(a, b) ==
    IF a.man = << >> THEN b
    ELSE IF b.man = << >> THEN a
    ELSE ExactAdd(a.neg, a.exp, a.man, b.neg, b.exp, b.man)

FSub(a, b) == FAdd(a, FNeg(b))

FMul(a, b) ==
    IF a.man = << >> \/ b.man = << >> THEN Zero
    ELSE Round(a.neg # b.neg, a.exp + b.exp, BigMul(a.man, b.man), FALSE)

\* a / b for b # 0
FDiv(a, b) ==
    IF a.man = << >> THEN Zero
    ELSE LET res == BigDiv(BigShl(a.man, Precision + 2), b.man)
         IN  Round(a.neg # b.neg, a.exp - b.exp - (Precision + 2), res.quot, res.inexact)

\* sqrt(a) for a >= 0
FSqrt(a) ==
    IF a.man = << >> THEN Zero
    ELSE LET odd == a.exp % 2 = 1
             exp == IF odd THEN a.exp - 1 ELSE a.exp
             wide == BigShl(a.man, IF odd THEN 59 ELSE 58)
             root == BigSqrt(wide)
         IN  Round(FALSE, exp \div 2 - 29, root, BigCmp(BigMul(root, root), wide) # 0)

\* a * b + c, rounded once (a fused multiply-add)
FFma(a, b, c) ==
    IF a.man = << >> \/ b.man = << >> THEN c
    ELSE IF c.man = << >> THEN FMul(a, b)
    ELSE ExactAdd(a.neg # b.neg, a.exp + b.exp, BigMul(a.man, b.man), c.neg, c.exp, c.man)

FMin(a, b) == IF FLess(b, a) THEN b ELSE a

\* the decimal literal n / 10^k as Python reads it
Decimal(n, k) == FDiv(FloatOf(n), FloatOf(10 ^ k))

-----------------------------------------------------------------------------
(* numpy vectors of three floats. *)

VSub(a, b) == <<FSub(a[1], b[1]), FSub(a[2], b[2]), FSub(a[3], b[3])>>

VAdd(a, b) == <<FAdd(a[1], b[1]), FAdd(a[2], b[2]), FAdd(a[3], b[3])>>

\* v * k for a scalar k
VScale(v, k) == <<FMul(v[1], k), FMul(v[2], k), FMul(v[3], k)>>

\* v / d for a scalar d # 0
VUnit(v, d) == <<FDiv(v[1], d), FDiv(v[2], d), FDiv(v[3], d)>>

\* v.dot(v): the products summed in index order, each product rounded before it is
\* added, or fused into the addition
Dot(v, contract) ==
    IF contract
    THEN FFma(v[3], v[3], FFma(v[2], v[2], FMul(v[1], v[1])))
    ELSE FAdd(FAdd(FMul(v[1], v[1]), FMul(v[2], v[2])), FMul(v[3], v[3]))

\* np.linalg.norm
Norm(v) == FSqrt(Dot(v, fused))

-----------------------------------------------------------------------------
(* DroneSimulator. *)

max_speed == FloatOf(10)           \* 10.0 m/s
ArrivalThreshold == FloatOf(1)     \* distance < 1.0: waypoint reached
Braking == FloatOf(2)              \* distance * 2
DrainRate == Decimal(1, 1)         \* battery_level -= 0.1 * dt
DefaultDt == Decimal(1, 1)         \* update_position(dt = 0.1)
InitBattery == FloatOf(100)        \* 100.0
InitAltitude == FloatOf(100)       \* position (0.0, 0.0, 100.0)

Waypoint(x, y, z) == [x |-> x, y |-> y, z |-> z]

\* A flight plan as start_inspection receives it: a list of waypoints, or None
ListPlan(items) == [none |-> FALSE, items |-> items]

NonePlan == [none |-> TRUE, items |-> << >>]

\* "not self.waypoints": None and the empty list alike
NoWaypoints(wps) == wps.none \/ wps.items = << >>

\* len(self.waypoints), where the code takes it of a list
PlanLen(wps) == Len(wps.items)

\* DroneSimulator.__init__
DroneInit ==
    [position |-> <<Zero, Zero, InitAltitude>>,
     velocity |-> <<Zero, Zero, Zero>>,
     current_waypoint_idx |-> 0,
     waypoints |-> ListPlan(<< >>),
     is_flying |-> FALSE,
     battery_level |-> InitBattery,
     flight_path |-> <<>>]

set_flight_path(self, waypoints) ==
    [self EXCEPT !.waypoints = waypoints,
                 !.current_waypoint_idx = 0,
                 !.flight_path = <<>>]

\* the early return of an exhausted plan
NoPlanLeft(self) ==
    NoWaypoints(self.waypoints) \/ self.current_waypoint_idx >= PlanLen(self.waypoints)

\* the tick's moving part charging the battery where the code drains it
MoveTowards_recharges(self, direction, distance, idx, step) ==
    LET moves == FLess(Zero, distance)
        velocity == IF moves
                    THEN VScale(VUnit(direction, distance),
                                FMin(max_speed, FMul(distance, Braking)))
                    ELSE self.velocity
        position == IF moves
                    THEN VAdd(self.position, VScale(velocity, step))
                    ELSE self.position
    IN  [self EXCEPT !.current_waypoint_idx = idx,
                     !.velocity = velocity,
                     !.position = position,
                     !.battery_level = FAdd(@, FMul(DrainRate, step)),
                     !.flight_path = Append(@, position)]

\* the tick's moving part with the battery held at zero once it is empty
MoveTowards_clamps(self, direction, distance, idx, step) ==
    LET moves == FLess(Zero, distance)
        velocity == IF moves
                    THEN VScale(VUnit(direction, distance),
                                FMin(max_speed, FMul(distance, Braking)))
                    ELSE self.velocity
        position == IF moves
                    THEN VAdd(self.position, VScale(velocity, step))
                    ELSE self.position
        drained == FSub(self.battery_level, FMul(DrainRate, step))
    IN  [self EXCEPT !.current_waypoint_idx = idx,
                     !.velocity = velocity,
                     !.position = position,
                     !.battery_level = IF FLess(drained, Zero) THEN Zero ELSE drained,
                     !.flight_path = Append(@, position)]

\* the tick's moving part (lines 73-83): velocity, position, battery, path history
MoveTowards(self, direction, distance, idx, step) ==
    LET moves == FLess(Zero, distance)
        velocity == IF moves
                    THEN VScale(VUnit(direction, distance),
                                FMin(max_speed, FMul(distance, Braking)))
                    ELSE self.velocity
        position == IF moves
                    THEN VAdd(self.position, VScale(velocity, step))
                    ELSE self.position
    IN  [self EXCEPT !.current_waypoint_idx = idx,
                     !.velocity = velocity,
                     !.position = position,
                     !.battery_level = FSub(@, FMul(DrainRate, step)),
                     !.flight_path = Append(@, position)]

\* the targeted waypoint
Target(self) == self.waypoints.items[self.current_waypoint_idx + 1]

\* direction = target_pos - self.position
Direction(self) == VSub(<<Target(self).x, Target(self).y, Target(self).z>>, self.position)

\* update_position without "self.is_flying = False" on the last arrival
update_position_keeps_flying(self, step) ==
    IF NoPlanLeft(self) THEN [self EXCEPT !.is_flying = FALSE]
    ELSE LET direction == Direction(self)
             distance == Norm(direction)
             reached == FLess(distance, ArrivalThreshold)
             idx == IF reached THEN self.current_waypoint_idx + 1 ELSE self.current_waypoint_idx
         IN  IF reached /\ idx >= PlanLen(self.waypoints)
             THEN [self EXCEPT !.current_waypoint_idx = idx]
             ELSE MoveTowards(self, direction, distance, idx, step)

\* update_position starting the plan over on the last arrival
update_position_wraps(self, step) ==
    IF NoPlanLeft(self) THEN [self EXCEPT !.is_flying = FALSE]
    ELSE LET direction == Direction(self)
             distance == Norm(direction)
             reached == FLess(distance, ArrivalThreshold)
             idx == IF reached THEN self.current_waypoint_idx + 1 ELSE self.current_waypoint_idx
         IN  IF reached /\ idx >= PlanLen(self.waypoints)
             THEN [self EXCEPT !.current_waypoint_idx = 0, !.is_flying = FALSE]
             ELSE MoveTowards(self, direction, distance, idx, step)

\* update_position logging the path on the last arrival too
update_position_logs_arrival(self, step) ==
    IF NoPlanLeft(self) THEN [self EXCEPT !.is_flying = FALSE]
    ELSE LET direction == Direction(self)
             distance == Norm(direction)
             reached == FLess(distance, ArrivalThreshold)
             idx == IF reached THEN self.current_waypoint_idx + 1 ELSE self.current_waypoint_idx
         IN  IF reached /\ idx >= PlanLen(self.waypoints)
             THEN [self EXCEPT !.current_waypoint_idx = idx, !.is_flying = FALSE,
                               !.flight_path = Append(@, self.position)]
             ELSE MoveTowards(self, direction, distance, idx, step)

\* update_position counting a waypoint as reached only after a move towards it
update_position_needs_motion(self, step) ==
    IF NoPlanLeft(self) THEN [self EXCEPT !.is_flying = FALSE]
    ELSE LET direction == Direction(self)
             distance == Norm(direction)
             reached == FLess(Zero, distance) /\ FLess(distance, ArrivalThreshold)
             idx == IF reached THEN self.current_waypoint_idx + 1 ELSE self.current_waypoint_idx
         IN  IF reached /\ idx >= PlanLen(self.waypoints)
             THEN [self EXCEPT !.current_waypoint_idx = idx, !.is_flying = FALSE]
             ELSE MoveTowards(self, direction, distance, idx, step)

\* update_position moving only on the ticks that reach no waypoint
update_position_rests_on_arrival(self, step) ==
    IF NoPlanLeft(self) THEN [self EXCEPT !.is_flying = FALSE]
    ELSE LET direction == Direction(self)
             distance == Norm(direction)
             reached == FLess(distance, ArrivalThreshold)
             idx == IF reached THEN self.current_waypoint_idx + 1 ELSE self.current_waypoint_idx
         IN  IF reached /\ idx >= PlanLen(self.waypoints)
             THEN [self EXCEPT !.current_waypoint_idx = idx, !.is_flying = FALSE]
             ELSE MoveTowards(self, direction, IF reached THEN Zero ELSE distance, idx, step)

update_position(self, step) ==
    IF NoPlanLeft(self) THEN [self EXCEPT !.is_flying = FALSE]
    ELSE
        LET direction == Direction(self)
            distance == Norm(direction)
            reached == FLess(distance, ArrivalThreshold)
            idx == IF reached THEN self.current_waypoint_idx + 1
                   ELSE self.current_waypoint_idx
        IN  IF reached /\ idx >= PlanLen(self.waypoints)
            THEN [self EXCEPT !.current_waypoint_idx = idx, !.is_flying = FALSE]
            ELSE MoveTowards(self, direction, distance, idx, step)

-----------------------------------------------------------------------------
(* AnomalyDetector.  A detector's random draws are its inputs: t is the   *)
(* trigger variate random.random() in hundredths, q the level of the other *)
(* draws (0: the low end of each range and the first choice, 1: the middle *)
(* and the second choice, 2: the high end and the third choice).           *)

\* random.randint(a, b): both ends included
randint(a, b, q) == IF q = 0 THEN a ELSE IF q = 1 THEN (a + b) \div 2 ELSE b

\* random.uniform(a, b), in hundredths
uniform(a, b, q) == IF q = 0 THEN a ELSE IF q = 1 THEN (a + b) \div 2 ELSE b

\* random.choice(seq)
choice(seq, q) == seq[(q % Len(seq)) + 1]

_detect_cracks(t, q) ==
    IF t < 30
    THEN << [bbox |-> <<randint(50, 550, q), randint(50, 400, q),
                        randint(80, 150, q), randint(10, 30, q)>>,
             confidence |-> uniform(70, 95, q),
             severity |-> choice(<<"low", "medium", "high">>, q)] >>
    ELSE << >>

\* _detect_rust choosing among the crack detector's severities
_detect_rust_any_severity(t, q) ==
    IF t < 25
    THEN << [bbox |-> <<randint(50, 500, q), randint(50, 350, q),
                        randint(40, 100, q), randint(40, 100, q)>>,
             confidence |-> uniform(60, 90, q),
             severity |-> choice(<<"low", "medium", "high">>, q)] >>
    ELSE << >>

_detect_rust(t, q) ==
    IF t < 25
    THEN << [bbox |-> <<randint(50, 500, q), randint(50, 350, q),
                        randint(40, 100, q), randint(40, 100, q)>>,
             confidence |-> uniform(60, 90, q),
             severity |-> choice(<<"low", "medium">>, q)] >>
    ELSE << >>

_detect_loose_bolts(t, q) ==
    IF t < 15
    THEN << [bbox |-> <<randint(290, 350, q), randint(210, 270, q), 60, 60>>,
             confidence |-> uniform(80, 95, q),
             severity |-> choice(<<"medium", "high", "critical">>, q)] >>
    ELSE << >>

_detect_corrosion(t, q) ==
    IF t < 20
    THEN << [bbox |-> <<randint(100, 450, q), randint(100, 300, q),
                        randint(60, 120, q), randint(60, 120, q)>>,
             confidence |-> uniform(65, 85, q),
             severity |-> choice(<<"low", "medium", "high">>, q)] >>
    ELSE << >>

\* the detectors registered in another order
detection_models_reordered == <<"rust", "crack", "loose_bolt", "corrosion">>

\* the keys of self.detection_models, in insertion order
detection_models == <<"crack", "rust", "loose_bolt", "corrosion">>

\* self.detection_models[anomaly_type](image), on the i-th detector's draws
Detector(i, rnd) ==
    CASE detection_models[i] = "crack" -> _detect_cracks(rnd.trig[i], rnd.q)
      [] detection_models[i] = "rust" -> _detect_rust(rnd.trig[i], rnd.q)
      [] detection_models[i] = "loose_bolt" -> _detect_loose_bolts(rnd.trig[i], rnd.q)
      [] detection_models[i] = "corrosion" -> _detect_corrosion(rnd.trig[i], rnd.q)

\* Anomaly(...) for one detection
MakeAnomaly(anomaly_type, detection, position, clock) ==
    [id |-> <<anomaly_type, clock>>,
     type |-> anomaly_type,
     confidence |-> detection.confidence,
     position |-> position,
     timestamp |-> clock,
     bbox |-> detection.bbox,
     severity |-> detection.severity]

\* the inner loop: one Anomaly per detection of one detector
RECURSIVE AnomaliesOf(_, _, _, _)
AnomaliesOf(anomaly_type, detected, position, clock) ==
    IF detected = << >> THEN << >>
    ELSE <<MakeAnomaly(anomaly_type, Head(detected), position, clock)>>
         \o AnomaliesOf(anomaly_type, Tail(detected), position, clock)

\* the outer loop, from the i-th detector on
RECURSIVE DetectFrom(_, _, _, _)
DetectFrom(i, rnd, position, clock) ==
    IF i > Len(detection_models) THEN << >>
    ELSE AnomaliesOf(detection_models[i], Detector(i, rnd), position, clock)
         \o DetectFrom(i + 1, rnd, position, clock)

detect_anomalies(rnd, position, clock) == DetectFrom(1, rnd, position, clock)

\* the random source's outcomes of one tick
Draw(t1, t2, t3, t4, q) == [trig |-> <<t1, t2, t3, t4>>, q |-> q]

NoFire == Draw(99, 99, 99, 99, 0)

RandomDraws ==
    {NoFire, Draw(0, 0, 0, 0, 2), Draw(30, 24, 14, 99, 1), Draw(99, 25, 15, 19, 0),
     Draw(99, 24, 14, 99, 0), Draw(99, 99, 99, 19, 1)}
    \cup {Draw(29, 99, 99, 99, q) : q \in 0..1}

-----------------------------------------------------------------------------
(* InspectionDashboard. *)

EmptyDict == [k \in {} |-> 0]

\* d[k] = 1: the count started over at every anomaly
count_into_overwrite(d, k) == IF k \in DOMAIN d THEN [d EXCEPT ![k] = 1] ELSE d @@ (k :> 1)

\* d[k] = d.get(k, 0) + 1
count_into(d, k) == IF k \in DOMAIN d THEN [d EXCEPT ![k] = @ + 1] ELSE d @@ (k :> 1)

\* the report loop's running count of one field's values
RECURSIVE CountKeys(_, _)
CountKeys(keys, d) ==
    IF keys = << >> THEN d ELSE CountKeys(Tail(keys), count_into(d, Head(keys)))

\* one entry of report['detailed_anomalies']
Summary(anomaly) ==
    [id |-> anomaly.id,
     type |-> anomaly.type,
     confidence |-> anomaly.confidence,
     position |-> anomaly.position,
     timestamp |-> anomaly.timestamp,
     severity |-> anomaly.severity]

\* generate_report listing the newest anomaly first
generate_report_newest_first(log, self_drone, clock) ==
    [inspection_date |-> clock,
     total_anomalies |-> Len(log),
     flight_path_length |-> Len(self_drone.flight_path),
     battery_used |-> FSub(FloatOf(100), self_drone.battery_level),
     anomalies_by_type |-> CountKeys([i \in 1..Len(log) |-> log[i].type], EmptyDict),
     anomalies_by_severity |-> CountKeys([i \in 1..Len(log) |-> log[i].severity], EmptyDict),
     detailed_anomalies |-> [i \in 1..Len(log) |-> Summary(log[Len(log) + 1 - i])]]

generate_report(log, self_drone, clock) ==
    [inspection_date |-> clock,
     total_anomalies |-> Len(log),
     flight_path_length |-> Len(self_drone.flight_path),
     battery_used |-> FSub(FloatOf(100), self_drone.battery_level),
     anomalies_by_type |-> CountKeys([i \in 1..Len(log) |-> log[i].type], EmptyDict),
     anomalies_by_severity |-> CountKeys([i \in 1..Len(log) |-> log[i].severity], EmptyDict),
     detailed_anomalies |-> [i \in 1..Len(log) |-> Summary(log[i])]]

\* the new findings put in front of the log
extend_in_front(log, new_anomalies) == new_anomalies \o log

\* self.anomalies.extend(new_anomalies)
extend(log, new_anomalies) == log \o new_anomalies

\* the status panel's len(self.drone.waypoints) raises TypeError on a None plan,
\* and the handler ends before its last statement
RenderRaises(self_drone) == self_drone.waypoints.none

\* "if not self.drone.is_flying: self.inspection_active = False"
StopIfLanded(self_drone, active) ==
    IF RenderRaises(self_drone) THEN active
    ELSE IF ~self_drone.is_flying THEN FALSE ELSE active


-----------------------------------------------------------------------------
(* The inputs of the model. *)

StartPos == <<Zero, Zero, InitAltitude>>

\* the start position (0, 0, 100), and (0, 0, 98.8), 1.2 below it
Waypoints == {Waypoint(Zero, Zero, FloatOf(100)), Waypoint(Zero, Zero, Decimal(988, 1))}

RECURSIVE SeqsUpTo(_, _)
SeqsUpTo(S, n) ==
    IF n = 0 THEN {<< >>}
    ELSE LET shorter == SeqsUpTo(S, n - 1)
         IN  shorter \cup {Append(p, w) : p \in {r \in shorter : Len(r) = n - 1}, w \in S}

\* the dashboard's flight plans: None, and every list of up to two of the waypoints
Plans == {ListPlan(p) : p \in SeqsUpTo(Waypoints, 2)} \cup {NonePlan}

\* what the clock may read next
ClockReadings == {c \in {now, now + 1} : c <= MaxClock}

\* the draws of a tick: the detectors stay silent once the log is MaxLog long
TickDraws == IF Len(anomalies) < MaxLog THEN RandomDraws ELSE {NoFire}

\* the numpy builds: a dot product that rounds every product, and one that fuses
Builds == BOOLEAN

-----------------------------------------------------------------------------
(* The dashboard-driven system: start_inspection, the timer's              *)
(* update_dashboard calls, generate_report.                                *)

Init ==
    /\ drone = DroneInit
    /\ anomalies = << >>
    /\ inspection_active = FALSE
    /\ ticks = 0
    /\ now = 0
    /\ ret = << >>
    /\ missions = 0
    /\ dt = DefaultDt
    /\ fused \in Builds

StartInspection(waypoints) ==
    /\ missions < MaxMissions
    /\ drone' = [set_flight_path(drone, waypoints) EXCEPT !.is_flying = TRUE]
    /\ inspection_active' = TRUE
    /\ anomalies' = << >>
    /\ ticks' = 0
    /\ missions' = missions + 1
    /\ ret' = << >>
    /\ UNCHANGED <<now, dt, fused>>

\* update_dashboard detecting at the position the drone had before it moved
Tick_detects_before_moving ==
    /\ inspection_active
    /\ ticks < MaxFrames
    /\ \E moved \in {update_position(drone, DefaultDt)}, rnd \in TickDraws,
          clock \in ClockReadings :
              LET new_anomalies == detect_anomalies(rnd, drone.position, clock)
              IN  /\ drone' = moved
                  /\ anomalies' = extend(anomalies, new_anomalies)
                  /\ now' = IF new_anomalies = << >> THEN now ELSE clock
                  /\ inspection_active' = StopIfLanded(moved, inspection_active)
    /\ ticks' = ticks + 1
    /\ ret' = << >>
    /\ UNCHANGED <<missions, dt, fused>>

\* update_dashboard while the inspection is active, on any draws and clock reading
Tick ==
    /\ inspection_active
    /\ ticks < MaxFrames
    /\ \E moved \in {update_position(drone, DefaultDt)}, rnd \in TickDraws,
          clock \in ClockReadings :
              LET new_anomalies == detect_anomalies(rnd, moved.position, clock)
              IN  /\ drone' = moved
                  /\ anomalies' = extend(anomalies, new_anomalies)
                  /\ now' = IF new_anomalies = << >> THEN now ELSE clock
                  /\ inspection_active' = StopIfLanded(moved, inspection_active)
    /\ ticks' = ticks + 1
    /\ ret' = << >>
    /\ UNCHANGED <<missions, dt, fused>>

\* update_dashboard without its early return: an inactive controller ticks on
IdleTick_runs ==
    /\ ~inspection_active
    /\ ticks < MaxFrames
    /\ \E moved \in {update_position(drone, DefaultDt)}, rnd \in TickDraws,
          clock \in ClockReadings :
              LET new_anomalies == detect_anomalies(rnd, moved.position, clock)
              IN  /\ drone' = moved
                  /\ anomalies' = extend(anomalies, new_anomalies)
                  /\ now' = IF new_anomalies = << >> THEN now ELSE clock
    /\ ticks' = ticks + 1
    /\ ret' = << >>
    /\ UNCHANGED <<inspection_active, missions, dt, fused>>

\* update_dashboard while it is not: the early return
IdleTick ==
    /\ ~inspection_active
    /\ ticks < MaxFrames
    /\ ticks' = ticks + 1
    /\ ret' = << >>
    /\ UNCHANGED <<drone, anomalies, inspection_active, now, missions, dt, fused>>

GenerateReport(clock) ==
    /\ ret' = <<generate_report(anomalies, drone, clock)>>
    /\ now' = clock
    /\ UNCHANGED <<drone, anomalies, inspection_active, ticks, missions, dt, fused>>

Next ==
    \/ \E waypoints \in Plans : StartInspection(waypoints)
    \/ Tick
    \/ IdleTick
    \/ \E clock \in ClockReadings : GenerateReport(clock)

Spec == Init /\ [][Next]_vars

-----------------------------------------------------------------------------
(* The directly driven drone: a driver loads a plan, through start_inspection *)
(* or through set_flight_path alone, and calls update_position(dt) with one   *)
(* fixed dt, whether or not is_flying is set.                                 *)

\* 0.1 (the default), 0.5, 1.0 and 100.0
DtSet == {DefaultDt, Decimal(5, 1), FloatOf(1), FloatOf(100)}

\* the float next above the start altitude: 100 + 2^-46
NextAbove == FAdd(InitAltitude, FDiv(FloatOf(1), FMul(FloatOf(2 ^ 23), FloatOf(2 ^ 23))))

\* the plans a driver starts an inspection with
MotionPlans ==
    {ListPlan(<< >>),
     ListPlan(<<Waypoint(Zero, Zero, FloatOf(100))>>),
     ListPlan(<<Waypoint(Zero, Zero, FloatOf(50))>>),
     ListPlan(<<Waypoint(Zero, Zero, FloatOf(97))>>),
     ListPlan(<<Waypoint(Decimal(8, 1), Zero, Decimal(1006, 1))>>),
     ListPlan(<<Waypoint(FloatOf(500), Zero, FloatOf(50))>>),
     ListPlan(<<Waypoint(Zero, Zero, FloatOf(100)), Waypoint(Zero, Zero, Decimal(988, 1))>>),
     ListPlan(<<Waypoint(Zero, Zero, Decimal(995, 1)), Waypoint(FloatOf(3), FloatOf(4), FloatOf(100))>>),
     ListPlan(<<Waypoint(Zero, Zero, NextAbove), Waypoint(Zero, Zero, FloatOf(97))>>)}

\* the plans a driver loads with set_flight_path alone
DirectPlans ==
    {ListPlan(<<Waypoint(Zero, Zero, FloatOf(97))>>),
     ListPlan(<<Waypoint(Decimal(-1787, 2), Decimal(1073, 2), Decimal(10169, 2))>>)}

MotionInit ==
    /\ drone = DroneInit
    /\ anomalies = << >>
    /\ inspection_active = FALSE
    /\ ticks = 0
    /\ now = 0
    /\ ret = << >>
    /\ missions = 0
    /\ dt \in DtSet
    /\ fused \in Builds

\* start_inspection, called before the plan in force is more than MaxReload ticks old
Launch(waypoints) ==
    /\ ticks <= MaxReload
    /\ StartInspection(waypoints)

\* set_flight_path, called on its own
SetFlightPath(waypoints) ==
    /\ ticks <= MaxReload
    /\ missions < MaxMissions
    /\ drone' = set_flight_path(drone, waypoints)
    /\ ticks' = 0
    /\ missions' = missions + 1
    /\ UNCHANGED <<anomalies, inspection_active, now, ret, dt, fused>>

\* update_position(dt), called on its own
MotionTick ==
    /\ ticks < MaxTicks
    /\ drone' = update_position(drone, dt)
    /\ ticks' = ticks + 1
    /\ UNCHANGED <<anomalies, inspection_active, now, ret, missions, dt, fused>>

MotionNext ==
    \/ \E waypoints \in MotionPlans : Launch(waypoints)
    \/ \E waypoints \in DirectPlans : SetFlightPath(waypoints)
    \/ MotionTick

MotionSpec == MotionInit /\ [][MotionNext]_vars

-----------------------------------------------------------------------------
(* Claims. *)

N == PlanLen(drone.waypoints)

Started == missions > 0

RECURSIVE AfterTicks(_, _, _)
AfterTicks(self, step, k) ==
    IF k = 0 \/ ~self.is_flying THEN self
    ELSE AfterTicks(update_position(self, step), step, k - 1)

\* The drone is flying where it already was k ticks ago, and k more ticks bring it
\* there again, still flying and aiming at the same waypoint.  update_position moves
\* it by its position, its waypoint index and its plan alone, so it then repeats
\* these k ticks for ever.
Recurs(self, step) ==
    \E k \in 1..MaxPeriod :
        /\ Len(self.flight_path) > k
        /\ self.flight_path[Len(self.flight_path) - k] = self.position
        /\ LET later == AfterTicks(self, step, k)
           IN  /\ later.is_flying
               /\ later.position = self.position
               /\ later.current_waypoint_idx = self.current_waypoint_idx

\* C1: every mission lands after finitely many update_position calls, whatever the
\* plan and the fixed dt > 0: no mission comes back, still flying, to a position and
\* waypoint index from which update_position brings it back once more.
C1_EveryMissionLands == ~(Started /\ drone.is_flying /\ Recurs(drone, dt))

\* the report generate_report would return now
Report == generate_report(anomalies, drone, now)

\* C2: a mission started with an empty or None plan is complete after its first
\* tick, without motion, and its report then shows flight_path_length = 0 and
\* total_anomalies = 0.
C2_EmptyPlanReport ==
    (Started /\ NoWaypoints(drone.waypoints) /\ ticks >= 1)
        => /\ ~inspection_active
           /\ drone.position = StartPos
           /\ Report.flight_path_length = 0
           /\ Report.total_anomalies = 0

\* C3 as stated: after start_inspection and any number of ticks, for a plan of N
\* waypoints (N = 0 included), current_waypoint_idx = N implies is_flying is false.
C3_Original ==
    (Started /\ ~drone.waypoints.none /\ drone.current_waypoint_idx = N)
        => ~drone.is_flying

\* C3 as amended: the same, once N >= 1 or at least one tick has run (for N = 0
\* start_inspection itself leaves the index at 0 = N with is_flying true).
C3_IndexAtEndMeansLanded ==
    (Started /\ ~drone.waypoints.none /\ drone.current_waypoint_idx = N
     /\ (N >= 1 \/ ticks >= 1))
        => ~drone.is_flying

\* a mission of a non-empty plan that reached its last waypoint
C3_Witness ==
    Started /\ N >= 1 /\ drone.current_waypoint_idx = N /\ ~drone.is_flying

\* a tick of the running mission
IsTick == missions' = missions /\ ticks' = ticks + 1

\* C4: from one tick to the next current_waypoint_idx never decreases, grows by at
\* most one, and never exceeds N.
C4_IndexMonotone ==
    [][IsTick =>
        /\ drone'.current_waypoint_idx \in
              {drone.current_waypoint_idx, drone.current_waypoint_idx + 1}
        /\ drone'.current_waypoint_idx <= PlanLen(drone'.waypoints)]_vars

\* a mission that passed its first waypoint and flies on to the second
C4_Witness ==
    Started /\ drone.is_flying /\ drone.current_waypoint_idx = 1 /\ N = 2 /\ ticks >= 2

\* the tick on which the drone lands
Lands == drone.is_flying /\ ~drone'.is_flying

\* C5 as stated: when is_flying has become false, flight_path is as long as the
\* number of ticks executed (the arrival tick included).
C5_Original == [][Lands => Len(drone'.flight_path) = ticks']_vars

\* C5 as amended: it is one shorter: every executed tick but the last one (the
\* arrival at the last waypoint, or the only tick of an empty plan) adds an entry.
C5_PathIsTicksMinusOne ==
    [][Lands => (IsTick /\ Len(drone'.flight_path) = ticks' - 1)]_vars

\* plan [(0,0,50)] from (0,0,100) with dt = 0.1, landed
C5_Witness ==
    /\ drone.waypoints = ListPlan(<<Waypoint(Zero, Zero, FloatOf(50))>>)
    /\ dt = DefaultDt /\ missions = 1
    /\ ~drone.is_flying
    /\ ticks = 54 /\ Len(drone.flight_path) = 53

\* C6: a completed mission stays complete whatever is called next (a tick or
\* start_inspection), and every mission begins from position (0,0,100) and
\* battery 100.
C6_CompleteIsTerminal ==
    [][/\ (Started /\ ~inspection_active) => ~inspection_active'
       /\ (missions' = missions + 1) =>
              (drone'.position = StartPos /\ drone'.battery_level = InitBattery)]_vars

RECURSIVE SumValues(_)
SumValues(d) ==
    IF DOMAIN d = {} THEN 0
    ELSE LET k == CHOOSE x \in DOMAIN d : TRUE
         IN  d[k] + SumValues([x \in DOMAIN d \ {k} |-> d[x]])

\* C7: the report generate_report returns has total_anomalies = len(log), and its
\* per-type counts and its per-severity counts each add up to len(log).
C7_ReportCountsAddUp ==
    ret # << >> =>
        /\ ret[1].total_anomalies = Len(anomalies)
        /\ SumValues(ret[1].anomalies_by_type) = Len(anomalies)
        /\ SumValues(ret[1].anomalies_by_severity) = Len(anomalies)
        /\ \A k \in DOMAIN ret[1].anomalies_by_type :
              ret[1].anomalies_by_type[k] =
                  Cardinality({i \in 1..Len(anomalies) : anomalies[i].type = k})
        /\ \A k \in DOMAIN ret[1].anomalies_by_severity :
              ret[1].anomalies_by_severity[k] =
                  Cardinality({i \in 1..Len(anomalies) : anomalies[i].severity = k})

\* a report of a log holding two anomalies of one type
C7_Witness ==
    /\ ret # << >>
    /\ \E i, j \in 1..Len(anomalies) : i < j /\ anomalies[i].type = anomalies[j].type

\* the table of the four categories: bounding-box ranges, confidence range
\* (hundredths), severities
CategoryRow(type) ==
    CASE type = "crack" ->
            [x |-> 50..550, y |-> 50..400, w |-> 80..150, h |-> 10..30,
             confidence |-> 70..95, severity |-> {"low", "medium", "high"}]
      [] type = "rust" ->
            [x |-> 50..500, y |-> 50..350, w |-> 40..100, h |-> 40..100,
             confidence |-> 60..90, severity |-> {"low", "medium"}]
      [] type = "loose_bolt" ->
            [x |-> 290..350, y |-> 210..270, w |-> {60}, h |-> {60},
             confidence |-> 80..95, severity |-> {"medium", "high", "critical"}]
      [] type = "corrosion" ->
            [x |-> 100..450, y |-> 100..300, w |-> 60..120, h |-> 60..120,
             confidence |-> 65..85, severity |-> {"low", "medium", "high"}]

InRow(a) ==
    LET row == CategoryRow(a.type)
    IN  /\ a.bbox[1] \in row.x /\ a.bbox[2] \in row.y
        /\ a.bbox[3] \in row.w /\ a.bbox[4] \in row.h
        /\ a.confidence \in row.confidence
        /\ a.severity \in row.severity

\* C8: every logged anomaly has one of the four registered types, and its severity,
\* bounding box and confidence lie in that type's row; critical is a loose bolt's.
C8_AnomalyInItsRow ==
    \A i \in 1..Len(anomalies) :
        /\ anomalies[i].type \in {"crack", "rust", "loose_bolt", "corrosion"}
        /\ InRow(anomalies[i])
        /\ anomalies[i].severity = "critical" => anomalies[i].type = "loose_bolt"

\* a log with a critical loose bolt and a rust finding
C8_Witness ==
    /\ \E i \in 1..Len(anomalies) :
          anomalies[i].type = "loose_bolt" /\ anomalies[i].severity = "critical"
    /\ \E i \in 1..Len(anomalies) : anomalies[i].type = "rust"

\* the order in which __init__ registers the detectors
RegistrationOrder == <<"crack", "rust", "loose_bolt", "corrosion">>

Rank(type) == CHOOSE i \in 1..Len(RegistrationOrder) : RegistrationOrder[i] = type

\* what a step added at the end of the log
Added == SubSeq(anomalies', Len(anomalies) + 1, Len(anomalies'))

\* C9: one detect_anomalies call returns at most one anomaly per category, so at
\* most four, in the order crack, rust, loose_bolt, corrosion.
C9_OnePerCategoryInOrder ==
    [][(IsTick /\ inspection_active) =>
        /\ Len(Added) <= 4
        /\ \A i, j \in 1..Len(Added) :
              i < j => Rank(Added[i].type) < Rank(Added[j].type)]_vars

\* a tick on which all four detectors fired
C9_Witness ==
    /\ Len(anomalies) >= 4
    /\ \E k \in 0..(Len(anomalies) - 4) :
          /\ \A i \in 1..4 : anomalies[k + i].type = RegistrationOrder[i]
          /\ \A i \in 1..4 : anomalies[k + i].position = anomalies[k + 1].position

\* C10: within a mission the log only grows at its end: the log before a tick is a
\* prefix of the log after it, and what the tick adds is what detect_anomalies
\* returned, in that order.
C10_LogAppendOnly ==
    [][(missions' = missions) =>
        /\ Len(anomalies') >= Len(anomalies)
        /\ SubSeq(anomalies', 1, Len(anomalies)) = anomalies
        /\ (IsTick /\ inspection_active) =>
              \E rnd \in RandomDraws, clock \in 0..MaxClock :
                  Added = detect_anomalies(rnd, drone'.position, clock)]_vars

\* a log with findings of two ticks
C10_Witness ==
    \E i \in 1..(Len(anomalies) - 1) :
        /\ anomalies[i].position # anomalies[i + 1].position
        /\ anomalies[i].type # anomalies[i + 1].type

\* C11: no two anomalies of the cumulative log, of one tick or of different ticks,
\* have the same id, also when the clock reads the same millisecond on two
\* consecutive ticks (stated for the missions whose plan is a list).
C11_IdsUnique ==
    ~drone.waypoints.none =>
        \A i, j \in 1..Len(anomalies) : i # j => anomalies[i].id # anomalies[j].id

\* the drone is on the first waypoint of its plan
OnFirstWaypoint(self) ==
    /\ ~NoWaypoints(self.waypoints)
    /\ LET first == self.waypoints.items[1]
       IN  self.position = <<first.x, first.y, first.z>>

\* C12: when the position at mission start is the first waypoint's position, the
\* first tick advances current_waypoint_idx to 1 and leaves the position as it is,
\* for a plan of one waypoint and for a longer plan alike.
C12_StartOnFirstWaypoint ==
    [][(IsTick /\ Started /\ ticks = 0 /\ drone.is_flying /\ OnFirstWaypoint(drone)) =>
        /\ drone'.current_waypoint_idx = 1
        /\ drone'.position = drone.position]_vars

\* the first tick of a plan of two waypoints that starts on its first waypoint
C12_Witness ==
    /\ Started /\ ticks = 1 /\ N = 2
    /\ OnFirstWaypoint(drone)
    /\ drone.current_waypoint_idx = 1 /\ drone.is_flying
    /\ drone.flight_path = <<drone.position>>

\* a report without its inspection_date
ReportBody(report) == [f \in DOMAIN report \ {"inspection_date"} |-> report[f]]

\* the entry of detailed_anomalies shows this anomaly of the log
Shows(entry, anomaly) ==
    /\ entry.id = anomaly.id /\ entry.type = anomaly.type
    /\ entry.confidence = anomaly.confidence /\ entry.position = anomaly.position
    /\ entry.timestamp = anomaly.timestamp /\ entry.severity = anomaly.severity

\* C13: a generate_report call changes neither the anomaly log nor the drone; its
\* detailed_anomalies follow the log's append order; and a second call with no tick
\* in between returns the same total, path length, battery use, per-type and
\* per-severity counts and detailed_anomalies (the inspection_date aside).
C13_ReportIdempotent ==
    [][(ret' # << >>) =>
        /\ UNCHANGED <<drone, anomalies, inspection_active>>
        /\ Len(ret'[1].detailed_anomalies) = Len(anomalies)
        /\ \A i \in 1..Len(anomalies) : Shows(ret'[1].detailed_anomalies[i], anomalies[i])
        /\ (ret # << >>) => ReportBody(ret'[1]) = ReportBody(ret[1])]_vars

\* a report on a log of two different findings, made later than the last finding
C13_Witness ==
    /\ ret # << >>
    /\ Len(anomalies) >= 2
    /\ anomalies[1] # anomalies[2]
    /\ \A i \in 1..Len(anomalies) : anomalies[i].timestamp < ret[1].inspection_date

\* the distance to the targeted waypoint, as this tick measures it
Distance(self) == Norm(Direction(self))

\* a tick of a flying drone that finds its targeted waypoint less than 1.0 away
ArrivalTick ==
    /\ IsTick /\ Started /\ drone.is_flying
    /\ ~NoPlanLeft(drone)
    /\ FLess(Distance(drone), ArrivalThreshold)

\* the position after a move of min(max_speed, 2 x distance) x dt towards the target
Advanced(self, step) ==
    VAdd(self.position,
         VScale(VScale(VUnit(Direction(self), Distance(self)),
                       FMin(max_speed, FMul(Distance(self), Braking))), step))

\* C14 as stated: an arrival tick (distance < 1.0) advances the waypoint index and
\* moves nothing: velocity and position change only on ticks with distance >= 1.0.
C14_Original ==
    [][ArrivalTick =>
        /\ drone'.current_waypoint_idx = drone.current_waypoint_idx + 1
        /\ drone'.position = drone.position
        /\ drone'.velocity = drone.velocity]_vars

\* the velocity of a move towards the target: min(max_speed, 2 x distance) along
\* the unit direction
Approach(self) ==
    VScale(VUnit(Direction(self), Distance(self)),
           FMin(max_speed, FMul(Distance(self), Braking)))

\* C14 as amended: an arrival tick advances the waypoint index.  At the last
\* waypoint it lands and changes nothing else: position, velocity, battery and
\* flight_path stay.  At any other waypoint the tick goes on as a tick that reaches
\* nothing: with 0 < distance < 1.0 the velocity is set to min(max_speed,
\* 2 x distance) towards the waypoint just reached and position += velocity x dt
\* (a step that changes the position unless the float addition absorbs it), with
\* distance 0 velocity and position stay; either way the battery drains 0.1 x dt
\* and the position is appended to flight_path.
C14_ArrivalMovesUnlessLast ==
    [][ArrivalTick =>
        /\ drone'.current_waypoint_idx = drone.current_waypoint_idx + 1
        /\ (drone'.current_waypoint_idx >= PlanLen(drone.waypoints))
              => /\ ~drone'.is_flying
                 /\ drone'.position = drone.position
                 /\ drone'.velocity = drone.velocity
                 /\ drone'.battery_level = drone.battery_level
                 /\ drone'.flight_path = drone.flight_path
        /\ (drone'.current_waypoint_idx < PlanLen(drone.waypoints))
              => /\ drone'.is_flying
                 /\ drone'.battery_level = FSub(drone.battery_level, FMul(DrainRate, dt))
                 /\ drone'.flight_path = Append(drone.flight_path, drone'.position)
                 /\ IF FLess(Zero, Distance(drone))
                    THEN /\ drone'.velocity = Approach(drone)
                         /\ drone'.velocity # <<Zero, Zero, Zero>>
                         /\ drone'.position = Advanced(drone, dt)
                    ELSE /\ drone'.velocity = drone.velocity
                         /\ drone'.position = drone.position]_vars

\* the first tick of a plan whose first waypoint is 0.5 below the start: the index
\* has advanced, the drone has moved, the battery has drained and the path is logged
C14_Witness ==
    /\ missions = 1 /\ ticks = 1 /\ N = 2
    /\ drone.waypoints.items[1] = Waypoint(Zero, Zero, Decimal(995, 1))
    /\ drone.current_waypoint_idx = 1 /\ drone.is_flying
    /\ drone.position # StartPos
    /\ FLess(drone.battery_level, InitBattery)
    /\ drone.flight_path = <<drone.position>>

\* a tick that moves the drone
MovingTick ==
    /\ IsTick /\ Started /\ drone.is_flying
    /\ ~NoPlanLeft(drone)
    /\ drone'.position # drone.position

\* the length of the step a tick made
StepLength == Norm(VSub(drone'.position, drone.position))

\* the distance left, after the tick, to the waypoint the tick moved towards
DistanceAfter ==
    Norm(VSub(<<Target(drone).x, Target(drone).y, Target(drone).z>>, drone'.position))

\* C15: on every tick that moves the drone, for any dt > 0, the step
\* min(max_speed, 2 x distance) x dt is no longer than the distance to the target:
\* the drone never passes its target, and is strictly closer to it after the move.
C15_NoOvershoot ==
    [][MovingTick =>
        /\ ~FLess(Distance(drone), StepLength)
        /\ FLess(DistanceAfter, Distance(drone))]_vars

\* C16: an update_dashboard call while inspection_active is false (before any
\* mission, or after one completed) changes nothing: position, velocity, battery,
\* waypoint index, is_flying, flight_path and the anomaly log stay as they are, and
\* no detection runs.
C16_InactiveTickIsNoOp ==
    [][(IsTick /\ ~inspection_active) =>
        UNCHANGED <<drone, anomalies, inspection_active, now>>]_vars

\* two more ticks delivered after the mission of plan [(0,0,100)] completed on its
\* first tick, with a finding logged
C16_Witness ==
    /\ missions = 1
    /\ drone.waypoints = ListPlan(<<Waypoint(Zero, Zero, FloatOf(100))>>)
    /\ ~inspection_active /\ ~drone.is_flying
    /\ ticks = 3
    /\ Len(anomalies) = 1

\* C17: battery_level never increases from one tick to the next while the mission
\* is active, for any dt > 0.
C17_BatteryNeverIncreases ==
    [][IsTick => ~FLess(drone.battery_level, drone'.battery_level)]_vars

\* a mission flown with dt = 0.5 whose battery has drained on two ticks
C17_Witness ==
    /\ Started /\ drone.is_flying /\ dt = Decimal(5, 1)
    /\ ticks = 2
    /\ drone.battery_level =
           FSub(FSub(InitBattery, FMul(DrainRate, dt)), FMul(DrainRate, dt))
    /\ FLess(drone.battery_level, InitBattery)

\* |a - b| < 10^-9
Close(a, b) ==
    LET diff == FSub(a, b)
    IN  FLess(diff, Decimal(1, 9)) /\ FLess(Decimal(-1, 9), diff)

\* 0.1 x dt x n
Drained(n) == FMul(FMul(DrainRate, dt), FloatOf(n))

\* C18 as stated: in the one mission of a fresh controller flown with a fixed dt,
\* between ticks battery_level = 100 - 0.1 x dt x len(flight_path), and the report's
\* battery_used is 0.1 x dt x flight_path_length.
C18_Original ==
    missions = 1 =>
        /\ drone.battery_level = FSub(InitBattery, Drained(Len(drone.flight_path)))
        /\ Report.battery_used = Drained(Report.flight_path_length)

\* C18 as amended: battery and path move in lockstep and nothing stops the battery
\* at zero: a tick either appends one flight_path entry and takes the float
\* 0.1 x dt from battery_level, or leaves both as they are; so between ticks
\* battery_level is 100 - 0.1 x dt x len(flight_path), and the report's battery_used
\* is 0.1 x dt x flight_path_length, up to the rounding of the float subtractions
\* (here by less than 10^-9), not exactly.
C18_BatteryPathLockstep ==
    [][(missions' = 1) =>
        /\ IsTick =>
              \/ /\ Len(drone'.flight_path) = Len(drone.flight_path) + 1
                 /\ drone'.battery_level = FSub(drone.battery_level, FMul(DrainRate, dt))
              \/ /\ drone'.flight_path = drone.flight_path
                 /\ drone'.battery_level = drone.battery_level
        /\ Close(drone'.battery_level,
                 FSub(InitBattery, Drained(Len(drone'.flight_path))))
        /\ Close(generate_report(anomalies', drone', now').battery_used,
                 Drained(Len(drone'.flight_path)))]_vars

\* plan [(0,0,50)] flown with dt = 100.0 for more than the 1000 s the battery
\* lasts: the drone flies on with a battery below zero
C18_Witness ==
    /\ missions = 1
    /\ drone.waypoints = ListPlan(<<Waypoint(Zero, Zero, FloatOf(50))>>)
    /\ dt = FloatOf(100)
    /\ drone.is_flying
    /\ Len(drone.flight_path) = 11
    /\ FLess(drone.battery_level, Zero)
    /\ FLess(FloatOf(100), Report.battery_used)

\* C19: between ticks the controller's flag and the drone's flag agree: in every
\* state reached by start_inspection and any number of ticks, inspection_active =
\* is_flying; the tick that clears is_flying clears inspection_active too.
C19_FlagsAgree == Started => (inspection_active = drone.is_flying)

\* the positions a mission has been at: the entries of flight_path, and, as long as
\* flight_path is empty, the position the mission started from, where the drone
\* still is
MissionPositions(self) ==
    {self.flight_path[k] : k \in 1..Len(self.flight_path)}
        \cup (IF self.flight_path = << >> THEN {self.position} ELSE {})

\* C20: every anomaly of the log carries a position that is an entry of flight_path
\* or the position the mission started from; an anomaly logged on a tick carries
\* the position the drone has right after that tick's update_position; and later
\* ticks leave the position of an anomaly already logged as it is.
C20_AnomalyPositions ==
    [][/\ \A i \in 1..Len(anomalies') :
             anomalies'[i].position \in MissionPositions(drone')
       /\ (IsTick /\ inspection_active) =>
             \A i \in 1..Len(Added) : Added[i].position = drone'.position
       /\ (missions' = missions) =>
             \A i \in 1..Len(anomalies) :
                 anomalies'[i].position = anomalies[i].position]_vars

\* a finding logged at the first entry of flight_path, one logged further on, and
\* the drone no longer where the first was logged
C20_Witness ==
    /\ Len(anomalies) = 2
    /\ Len(drone.flight_path) >= 2
    /\ anomalies[1].position = drone.flight_path[1]
    /\ anomalies[2].position = drone.flight_path[2]
    /\ anomalies[1].position # anomalies[2].position
    /\ drone.position # anomalies[1].position

====
